---------------------------- MODULE Spec2Model ----------------------------
(***************************************************************************)
(* DeckOracle backend: the import/export engine                            *)
(* (backend/src/services/import_export.rs) over the relational store.      *)
(*                                                                         *)
(* The store is PostgreSQL at its default isolation (READ COMMITTED): the  *)
(* rows a transaction has written are seen by that transaction alone until *)
(* it commits, a commit publishes all of them at once, and dropping the    *)
(* transaction handle without a commit rolls all of them back.             *)
(***************************************************************************)
EXTENDS Integers, Sequences, FiniteSets, TLC

(***************************************************************************)
(* Bounds of the model.                                                    *)
(***************************************************************************)
\* import calls issued in one behaviour
MaxCalls == 2
\* cards, notes, data rows or card sections in one uploaded document
MaxCards == 2

(***************************************************************************)
(* Small utilities.                                                        *)
(***************************************************************************)
SeqsUpTo(S, n) == UNION {[1..k -> S] : k \in 0..n}

RECURSIVE SumSeq(_)
SumSeq(s) == IF s = <<>> THEN 0 ELSE Head(s) + SumSeq(Tail(s))

None == [some |-> FALSE]
Some(v) == [some |-> TRUE, val |-> v]

(***************************************************************************)
(* Uploaded bytes.  A document is described by its syntax:                 *)
(*   "json"  a JSON object: the keys present at top level, the title/name, *)
(*           and the elements of its "cards" / "notes" arrays, each with   *)
(*           the keys it carries;                                          *)
(*   "csv"   comma separated text: its records, the first one the header;  *)
(*   "md"    text lines, each split into a leading marker (pre) and the    *)
(*           rest of the line (text);                                      *)
(*   "text"  the bytes `hello`: one line of UTF-8 text that is not JSON    *)
(*           and carries no marker;                                        *)
(*   "bin"   the bytes FF FE: one line that is not valid UTF-8.            *)
(***************************************************************************)
Titles == {"A", "B"}

\* the fields serde requires of an ExportedDeck (Option fields may be absent)
ExportedDeckRequired ==
    {"id", "title", "tags", "created_at", "updated_at", "cards", "metadata"}

\* the fields serde requires of an ExportedCard
ExportedCardRequired ==
    {"id", "front", "back", "tags", "media", "created_at", "updated_at"}

\* the fields serde requires of an AnkiDeck
AnkiDeckRequired == {"name", "desc", "cards", "notes", "models"}

\* the fields serde requires of an AnkiNote
AnkiNoteRequired == {"id", "guid", "mid", "fields", "tags"}

\* the keys of the JSON sample served by get_import_template
TemplateDeckKeys == {"title", "description", "cards"}
TemplateCardKeys == {"front", "back", "tags"}

JsonCardElems ==
    {[keys |-> k, front |-> "q1", back |-> "a1"] :
        k \in {ExportedCardRequired, TemplateCardKeys}}
        \cup {[keys |-> ExportedCardRequired, front |-> "a1", back |-> "q1"]}

\* JSON objects written in the ExportedDeck shape (title, cards)
JsonDeckDocs ==
    UNION {{[syntax |-> "json", keys |-> k, title |-> t, cards |-> cs, notes |-> <<>>] :
                t \in Titles,
                cs \in IF "cards" \in k THEN SeqsUpTo(JsonCardElems, MaxCards) ELSE {<<>>}} :
            k \in {ExportedDeckRequired, ExportedDeckRequired \ {"cards"}, TemplateDeckKeys}}

AnkiNoteElems ==
    {[keys |-> AnkiNoteRequired, fields |-> f] :
        f \in {<<"q1">>, <<"q1", "a1">>, <<"a1", "q1", "q1">>}}
        \cup {[keys |-> AnkiNoteRequired \ {"guid"}, fields |-> <<"q1", "a1">>]}

\* JSON objects written in the AnkiDeck shape (name, notes)
AnkiDocs ==
    {[syntax |-> "json", keys |-> k, title |-> t, cards |-> <<>>, notes |-> ns] :
        k \in {AnkiDeckRequired, AnkiDeckRequired \ {"models"}},
        t \in Titles,
        ns \in SeqsUpTo(AnkiNoteElems, MaxCards)}

CsvRecords ==
    {[fields |-> f, utf8 |-> TRUE] :
        f \in {<<"q1">>, <<"q1", "a1">>, <<"a1", "q1", "", "", "1">>}}
        \cup {[fields |-> <<"q1", "a1">>, utf8 |-> FALSE]}

CsvHeaders ==
    {[fields |-> f, utf8 |-> TRUE] :
        f \in {<<"front">>, <<"front", "back">>,
               <<"Front", "Back", "Tags", "Explanation", "Difficulty">>}}

\* CSV text: nothing at all, or a header record followed by data records
CsvDocs ==
    {[syntax |-> "csv", records |-> <<>>]}
        \cup {[syntax |-> "csv", records |-> <<h>> \o rs] :
                h \in CsvHeaders, rs \in SeqsUpTo(CsvRecords, MaxCards)}

MdCardLines ==
    {[pre |-> "**Front:**", text |-> " q1"],
     [pre |-> "**Back:**", text |-> " a1"],
     [pre |-> "**Front:**", text |-> " see ## Card 2"]}

MdHeading == [pre |-> "## Card", text |-> " 1"]

RECURSIVE MdSections(_)
\* the texts made of at most n card sections, each a heading and up to two lines
MdSections(n) ==
    IF n = 0 THEN {<<>>}
    ELSE LET less == MdSections(n - 1)
         IN  less \cup {<<MdHeading>> \o body \o rest :
                            body \in SeqsUpTo(MdCardLines, 2),
                            rest \in {r \in less : Len(r) = 0 \/ r[1] = MdHeading}}

\* Markdown text: an optional title line, stray lines, then card sections
MdDocs ==
    {[syntax |-> "md", lines |-> head \o stray \o secs] :
        head \in {<<>>, <<[pre |-> "# ", text |-> "A "]>>, <<[pre |-> "# ", text |-> "B"]>>},
        stray \in {<<>>, <<[pre |-> "**Front:**", text |-> " q1"]>>,
                    <<[pre |-> "", text |-> "---"]>>},
        secs \in {s \in MdSections(MaxCards) :
                    Cardinality({i \in 1..Len(s) : s[i] = MdHeading}) <= MaxCards}}

TextDoc == [syntax |-> "text"]
BinDoc == [syntax |-> "bin"]

Formats == {"json", "csv", "anki", "markdown"}

\* the documents the model uploads under each declared format
InputsFor(format) ==
    CASE format = "json" -> JsonDeckDocs \cup AnkiDocs \cup {TextDoc, BinDoc}
      [] format = "anki" -> AnkiDocs \cup JsonDeckDocs \cup {TextDoc, BinDoc}
      [] format = "csv" -> CsvDocs \cup {TextDoc, BinDoc}
      [] format = "markdown" -> MdDocs \cup {TextDoc, BinDoc}

(***************************************************************************)
(* str::trim and str::matches on the texts of the model.                   *)
(***************************************************************************)
Trim(s) ==
    CASE s = " q1" -> "q1"
      [] s = " a1" -> "a1"
      [] s = "A " -> "A"
      [] s = " 1" -> "1"
      [] s = " see ## Card 2" -> "see ## Card 2"
      [] OTHER -> s

\* occurrences of "## Card" in a line
CardMarkers(line) ==
    (IF line.pre = "## Card" THEN 1 ELSE 0)
        + (IF line.text = " see ## Card 2" THEN 1 ELSE 0)

(***************************************************************************)
(* Decoders.  Each returns [ok, title, cards]: cards are the (front, back) *)
(* pairs in source order.                                                  *)
(***************************************************************************)
DecodeError == [ok |-> FALSE, title |-> "", cards |-> <<>>]

\* serde_json::from_slice::<ExportedDeck>
DecodeExportedDeck(data) ==
    IF /\ data.syntax = "json"
       /\ ExportedDeckRequired \subseteq data.keys
       /\ \A i \in 1..Len(data.cards) : ExportedCardRequired \subseteq data.cards[i].keys
    THEN [ok |-> TRUE, title |-> data.title,
          cards |-> [i \in 1..Len(data.cards) |->
                        [front |-> data.cards[i].front, back |-> data.cards[i].back]]]
    ELSE DecodeError

\* serde_json::from_slice::<AnkiDeck>: the notes with their field arrays
DecodeAnkiDeck(data) ==
    IF /\ data.syntax = "json"
       /\ AnkiDeckRequired \subseteq data.keys
       /\ \A i \in 1..Len(data.notes) : AnkiNoteRequired \subseteq data.notes[i].keys
    THEN [ok |-> TRUE, name |-> data.title,
          notes |-> [i \in 1..Len(data.notes) |-> data.notes[i].fields]]
    ELSE [ok |-> FALSE, name |-> "", notes |-> <<>>]

\* csv::Reader (has_headers, not flexible): the items its record iterator
\* yields, TRUE for Ok(record) and FALSE for Err.  The first record is taken
\* as the header without UTF-8 validation and fixes the field count.
CsvDataRecords(data) ==
    IF data.syntax = "csv" /\ data.records # <<>> THEN Tail(data.records) ELSE <<>>

CsvRecordOk(data, i) ==
    LET header == Head(data.records)
        rec == CsvDataRecords(data)[i]
    IN  rec.utf8 /\ Len(rec.fields) = Len(header.fields)

\* the record loop of import_from_csv: the first Err ends the import; the
\* records with at least 2 fields become cards
DecodeCsv(data) ==
    LET recs == CsvDataRecords(data)
        kept == SelectSeq(recs, LAMBDA r : Len(r.fields) >= 2)
    IN  IF \A i \in 1..Len(recs) : CsvRecordOk(data, i)
        THEN [ok |-> TRUE, title |-> "Imported Deck <today>",
              cards |-> [i \in 1..Len(kept) |->
                            [front |-> kept[i].fields[1], back |-> kept[i].fields[2]]]]
        ELSE DecodeError

\* String::from_utf8
Utf8Ok(data) == data.syntax # "bin"

\* content.lines()
Lines(data) ==
    IF data.syntax = "md" THEN data.lines ELSE <<[pre |-> "", text |-> "hello"]>>
\* a line loop in which the first Front and the first Back line of a card stay
MdStepKeepingFirst(st, line) ==
    CASE line.pre = "# " -> [st EXCEPT !.title = Trim(line.text)]
      [] line.pre = "## Card" ->
            [st EXCEPT !.cards = IF st.cur.some THEN Append(@, st.cur.val) ELSE @,
                       !.cur = Some([front |-> "", back |-> ""])]
      [] line.pre = "**Front:**" ->
            IF st.cur.some /\ st.cur.val.front = ""
            THEN [st EXCEPT !.cur = Some([st.cur.val EXCEPT !.front = Trim(line.text)])]
            ELSE st
      [] line.pre = "**Back:**" ->
            IF st.cur.some /\ st.cur.val.back = ""
            THEN [st EXCEPT !.cur = Some([st.cur.val EXCEPT !.back = Trim(line.text)])]
            ELSE st
      [] OTHER -> st

\* one round of the line loop of import_from_markdown; st = [title, cards, cur]
MdStep(st, line) ==
    CASE line.pre = "# " -> [st EXCEPT !.title = Trim(line.text)]
      [] line.pre = "## Card" ->
            [st EXCEPT !.cards = IF st.cur.some THEN Append(@, st.cur.val) ELSE @,
                       !.cur = Some([front |-> "", back |-> ""])]
      [] line.pre = "**Front:**" ->
            IF st.cur.some
            THEN [st EXCEPT !.cur = Some([st.cur.val EXCEPT !.front = Trim(line.text)])]
            ELSE st
      [] line.pre = "**Back:**" ->
            IF st.cur.some
            THEN [st EXCEPT !.cur = Some([st.cur.val EXCEPT !.back = Trim(line.text)])]
            ELSE st
      [] OTHER -> st

RECURSIVE MdLoop(_, _)
MdLoop(st, lines) ==
    IF lines = <<>> THEN st ELSE MdLoop(MdStep(st, Head(lines)), Tail(lines))

\* the parse of import_from_markdown, the last open card added at the end
DecodeMarkdown(data) ==
    IF ~Utf8Ok(data) THEN DecodeError
    ELSE LET st == MdLoop([title |-> "Imported from Markdown", cards |-> <<>>,
                           cur |-> None], Lines(data))
         IN  [ok |-> TRUE, title |-> st.title,
              cards |-> IF st.cur.some THEN Append(st.cards, st.cur.val) ELSE st.cards]

(***************************************************************************)
(* ImportExportService::validate_import                                    *)
(***************************************************************************)
ValidationResult(errors, warnings, deck_count, card_count) ==
    [is_valid |-> errors = <<>>, errors |-> errors, warnings |-> warnings,
     deck_count |-> deck_count, card_count |-> card_count]

validate_import(data, format) ==
    CASE format = "json" ->
            LET deck == DecodeExportedDeck(data)
            IN  IF deck.ok
                THEN ValidationResult(<<>>,
                        IF deck.cards = <<>> THEN <<"Deck contains no cards">> ELSE <<>>,
                        1, Len(deck.cards))
                ELSE ValidationResult(<<"Invalid JSON format">>, <<>>, 0, 0)
      [] format = "csv" ->
            LET card_count == Len(CsvDataRecords(data))
            IN  ValidationResult(
                    IF card_count = 0 THEN <<"CSV file contains no valid records">> ELSE <<>>,
                    <<>>, 1, card_count)
      [] format = "anki" ->
            LET deck == DecodeAnkiDeck(data)
            IN  IF deck.ok
                THEN ValidationResult(<<>>,
                        IF deck.notes = <<>> THEN <<"Anki deck contains no notes">> ELSE <<>>,
                        1, Len(deck.notes))
                ELSE ValidationResult(<<"Invalid Anki format">>, <<>>, 0, 0)
      [] format = "markdown" ->
            IF Utf8Ok(data)
            THEN LET lines == Lines(data)
                     card_count == SumSeq([i \in 1..Len(lines) |-> CardMarkers(lines[i])])
                 IN  ValidationResult(<<>>,
                        IF card_count = 0 THEN <<"Markdown file contains no cards">> ELSE <<>>,
                        1, card_count)
            ELSE ValidationResult(<<"Invalid UTF-8 encoding in Markdown file">>, <<>>, 0, 0)

(***************************************************************************)
(* The requests of the model.                                              *)
(***************************************************************************)
Users == {"u1", "u2"}

\* n well-formed JSON cards, alternately (q1, a1) and (a1, q1)
FullCards(n) ==
    [i \in 1..n |-> IF i % 2 = 1
                    THEN [keys |-> ExportedCardRequired, front |-> "q1", back |-> "a1"]
                    ELSE [keys |-> ExportedCardRequired, front |-> "a1", back |-> "q1"]]

\* n Anki notes, the first one with a single field
MixedNotes(n) ==
    [i \in 1..n |-> [keys |-> AnkiNoteRequired,
                     fields |-> IF i = 1 THEN <<"q1">> ELSE <<"q1", "a1">>]]

\* n CSV data records; the last one is one field short when `ragged`
DataRows(n, ragged) ==
    [i \in 1..n |-> [fields |-> IF ragged /\ i = n THEN <<"q1">> ELSE <<"q1", "a1">>,
                     utf8 |-> TRUE]]

RECURSIVE CardSections(_)
\* n Markdown card sections, each with a Front and a Back line
CardSections(n) ==
    IF n = 0 THEN <<>>
    ELSE <<MdHeading, [pre |-> "**Front:**", text |-> " q1"],
           [pre |-> "**Back:**", text |-> " a1"]>> \o CardSections(n - 1)

\* the documents uploaded to the import endpoint, per declared format
ImportDocs(format) ==
    CASE format = "json" ->
            {[syntax |-> "json", keys |-> ExportedDeckRequired, title |-> "A",
              cards |-> FullCards(MaxCards), notes |-> <<>>],
             TextDoc}
      [] format = "anki" ->
            {[syntax |-> "json", keys |-> AnkiDeckRequired, title |-> "A",
              cards |-> <<>>, notes |-> MixedNotes(MaxCards)],
             TextDoc}
      [] format = "csv" ->
            {[syntax |-> "csv",
              records |-> <<[fields |-> <<"front", "back">>, utf8 |-> TRUE]>>
                            \o DataRows(MaxCards, ragged)] : ragged \in BOOLEAN}
                \cup {[syntax |-> "csv", records |-> <<>>]}
      [] format = "markdown" ->
            {[syntax |-> "md",
              lines |-> <<[pre |-> "# ", text |-> "A "]>> \o CardSections(MaxCards)],
             BinDoc}

(***************************************************************************)
(* State.                                                                  *)
(***************************************************************************)
VARIABLES
    decks,      \* committed rows of table decks
    cards,      \* committed rows of table cards
    calls,      \* the import_decks calls: position, transaction, result
    reader,     \* the read request in progress or last finished
    validation, \* the validate_import handler's last request and response
    export,     \* the export request in progress or last finished
    service,    \* the DeckService / CardService request in progress or last finished
    appends,    \* DeckService / CardService requests that run side by side
    refresh_tokens,         \* rows of table refresh_tokens
    password_reset_tokens,  \* rows of table password_reset_tokens
    auth        \* the AuthService requests: position, locals, result

vars == <<decks, cards, calls, reader, validation, export, service, appends,
          refresh_tokens, password_reset_tokens, auth>>

CallIds == 1..MaxCalls

NoResult == [kind |-> "none"]
Ok(v) == [kind |-> "Ok", value |-> v]
Err(e) == [kind |-> "Err", error |-> e]
Aborted == [kind |-> "aborted"]

NoRequest ==
    [user_id |-> "u1", format |-> "json", data |-> TextDoc, folder_id |-> None,
     merge_duplicates |-> FALSE]

\* a call: its arguments; its locals (the transaction's uncommitted rows,
\* existing_deck, deck_id, the loop index next, imported_cards); its result;
\* and two history values: wrote (an INSERT of the call was executed) and
\* before (the calls that were committed when this one was issued)
IdleCall ==
    [pc |-> "idle", req |-> NoRequest, tx_decks |-> {}, tx_cards |-> {},
     existing_deck |-> None, deck_id |-> None, next |-> 1, imported_cards |-> 0,
     result |-> NoResult, wrote |-> FALSE, before |-> {}]

IdleReader ==
    [pc |-> "idle", op |-> "none", user_id |-> "u1", deck_id |-> None,
     found |-> FALSE, seen_decks |-> {}, seen_cards |-> {}, committed_before |-> {}]

\* Uuid::new_v4(): the n-th identifier drawn by call c (fresh by construction)
NewId(c, n) == [call |-> c, n |-> n]

\* an export request: its arguments; its locals (the index i of the loop of
\* export_decks, the deck row, all_data); its result; and one history value:
\* read (the card rows each cards SELECT returned, in the order returned)
IdleExport ==
    [pc |-> "idle", op |-> "none", user_id |-> "u1", deck_ids |-> <<>>, format |-> "json",
     i |-> 1, deck |-> None, all_data |-> <<>>, read |-> <<>>, result |-> NoResult]

\* a DeckService / CardService request: its arguments (rows: the items its
\* loop goes through); its locals (position, the loop index next, the
\* transaction's uncommitted rows);
\* the rows created; its result; and one history value: held (the cards of the
\* deck when the request was issued)
IdleService ==
    [pc |-> "idle", op |-> "none", user_id |-> "u1", deck_id |-> None, rows |-> <<>>,
     position |-> 0, next |-> 1, tx_cards |-> {}, created |-> <<>>, result |-> NoResult,
     held |-> {}]
\* the requests that append to a deck side by side
AppendIds == 1..MaxCalls

\* the AuthService requests
AuthIds == 1..(MaxCalls + 1)

\* a refresh token is named by the request that generated it (by, 0 for a
\* token a login had issued before) and the user it was issued to; a row of
\* refresh_tokens is [token, user_id, revoked] (revoked_at IS NOT NULL), and no
\* row expires within a behaviour
TokenOf(by, user_id) == [by |-> by, user_id |-> user_id]

\* INSERT INTO refresh_tokens (user_id, token, expires_at)
TokenRow(by, user_id) ==
    [token |-> TokenOf(by, user_id), user_id |-> user_id, revoked |-> FALSE]

\* the refresh tokens the logins of the two users have issued
IssuedTokens == {TokenRow(0, u) : u \in Users}

\* a token that was never issued
UnknownToken == TokenOf(0, "nobody")

\* the row request_password_reset has stored for u1: [token, user_id, used]
IssuedResetTokens == {[token |-> "r1", user_id |-> "u1", used |-> FALSE]}

\* an AuthService request: its arguments (refresh_token of RefreshTokenDto,
\* user_id of logout, token of PasswordResetDto); its local token_record; its
\* result; and one history value: revoked_before (the refresh tokens that were
\* revoked when the request was issued)
IdleAuth ==
    [pc |-> "idle", op |-> "none", refresh_token |-> UnknownToken, user_id |-> "u1",
     token |-> "none", token_record |-> None, result |-> NoResult,
     revoked_before |-> {}]

Init ==
    /\ decks = {}
    /\ cards = {}
    /\ calls = [c \in CallIds |-> IdleCall]
    /\ reader = IdleReader
    /\ validation = [done |-> FALSE]
    /\ export = IdleExport
    /\ service = IdleService
    /\ appends = [a \in AppendIds |-> IdleService]
    /\ refresh_tokens = IssuedTokens
    /\ password_reset_tokens = IssuedResetTokens
    /\ auth = [a \in AuthIds |-> IdleAuth]

(***************************************************************************)
(* What each importer decodes: [ok, error, title, inserts, count].         *)
(* inserts are the INSERT INTO cards statements of its loop, in order,     *)
(* each with the position it binds; count is the card count it reports     *)
(* when it does not count the statements itself.                           *)
(***************************************************************************)
\* positions of `for (position, card) in cards.iter().enumerate()`
Enumerated(cs) ==
    [i \in 1..Len(cs) |-> [front |-> cs[i].front, back |-> cs[i].back, position |-> i - 1]]

JsonPlan(data) ==
    LET deck == DecodeExportedDeck(data)
    IN  [ok |-> deck.ok, error |-> "BadRequest", title |-> deck.title,
         inserts |-> Enumerated(deck.cards), count |-> Len(deck.cards)]

CsvPlan(data) ==
    LET deck == DecodeCsv(data)
    IN  [ok |-> deck.ok, error |-> "CsvError", title |-> deck.title,
         inserts |-> Enumerated(deck.cards), count |-> Len(deck.cards)]
\* a notes loop that runs a statement for every note, a missing second field
\* bound as the empty string
AnkiPlanOfEveryNote(data) ==
    LET deck == DecodeAnkiDeck(data)
    IN  [ok |-> deck.ok, error |-> "BadRequest", title |-> deck.name,
         inserts |-> [k \in 1..Len(deck.notes) |->
                        [front |-> deck.notes[k][1],
                         back |-> IF Len(deck.notes[k]) >= 2 THEN deck.notes[k][2] ELSE "",
                         position |-> k - 1]],
         count |-> Len(deck.notes)]

\* the notes loop: a note with fewer than 2 fields runs no statement, and the
\* position bound is the note's index
AnkiPlan(data) ==
    LET deck == DecodeAnkiDeck(data)
        idx == SelectSeq([i \in 1..Len(deck.notes) |-> i],
                         LAMBDA i : Len(deck.notes[i]) >= 2)
    IN  [ok |-> deck.ok, error |-> "BadRequest", title |-> deck.name,
         inserts |-> [k \in 1..Len(idx) |->
                        [front |-> deck.notes[idx[k]][1], back |-> deck.notes[idx[k]][2],
                         position |-> idx[k] - 1]],
         count |-> Len(deck.notes)]

MarkdownPlan(data) ==
    LET deck == DecodeMarkdown(data)
    IN  [ok |-> deck.ok, error |-> "BadRequest", title |-> deck.title,
         inserts |-> Enumerated(deck.cards), count |-> Len(deck.cards)]

\* the importer import_decks dispatches to
Plan(format, data) ==
    CASE format = "json" -> JsonPlan(data)
      [] format = "csv" -> CsvPlan(data)
      [] format = "anki" -> AnkiPlan(data)
      [] format = "markdown" -> MarkdownPlan(data)

\* the arguments of import_decks: user u1 uploads every document without
\* mergeDuplicates, and the JSON and the Anki deck with it as well; user u2
\* uploads the JSON deck that u1 uploads
ImportRequests ==
    LET all == UNION {[user_id : Users, format : {f}, data : ImportDocs(f),
                       folder_id : {None}, merge_duplicates : BOOLEAN] : f \in Formats}
        accepted(r) == validate_import(r.data, r.format).is_valid
                            /\ Plan(r.format, r.data).ok
    IN  {r \in all :
            IF r.user_id = "u1"
            THEN r.merge_duplicates => accepted(r) /\ r.format \in {"json", "anki"}
            ELSE r.format = "json" /\ accepted(r) /\ ~r.merge_duplicates}

(***************************************************************************)
(* ImportExportService::import_decks, one action per suspension point.     *)
(***************************************************************************)
ImportResult(success, imported_decks, errors, warnings, total_cards, total_decks) ==
    [success |-> success, imported_decks |-> imported_decks, errors |-> errors,
     warnings |-> warnings, total_cards_imported |-> total_cards,
     total_decks_imported |-> total_decks]

\* an import_decks that goes on whatever the validator says
RejectsNothing(v) == FALSE

\* the test of the early return of import_decks: `if !validation.is_valid`
Rejected(v) == ~v.is_valid

\* a call that returns: its locals are dropped, and with them the
\* transaction handle, if any
Returned(call, result) ==
    [IdleCall EXCEPT !.pc = "done", !.req = call.req, !.result = result,
                     !.wrote = call.wrote, !.before = call.before]

\* the calls whose transaction is committed
Committed == {c \in CallIds : calls[c].pc = "done" /\ calls[c].result.kind = "Ok"
                                /\ calls[c].result.value.success}

\* import_decks up to its first await: validate, then the importer's decode
StartImport(c, req) ==
    /\ calls[c].pc = "idle"
    /\ \A b \in CallIds : b < c => calls[b].pc # "idle"
    /\ LET v == validate_import(req.data, req.format)
           call == [calls[c] EXCEPT !.req = req, !.before = Committed]
       IN  calls' = [calls EXCEPT ![c] =
                IF Rejected(v)
                THEN Returned(call, Ok(ImportResult(FALSE, <<>>, v.errors, v.warnings, 0, 0)))
                ELSE IF ~Plan(req.format, req.data).ok
                THEN Returned(call, Err(Plan(req.format, req.data).error))
                ELSE [call EXCEPT !.pc = "begin"]]
    /\ UNCHANGED <<decks, cards, reader, validation, export, service, appends,
                refresh_tokens, password_reset_tokens, auth>>

\* db.begin()
Begin(c) ==
    /\ calls[c].pc = "begin"
    /\ calls' = [calls EXCEPT ![c].pc = IF calls[c].req.format = "json"
                                        THEN "select_existing" ELSE "insert_deck"]
    /\ UNCHANGED <<decks, cards, reader, validation, export, service, appends,
                refresh_tokens, password_reset_tokens, auth>>

\* import_from_json: SELECT id FROM decks WHERE owner_id = $1 AND title = $2,
\* fetch_optional: some matching row, when there are several
SelectExisting(c) ==
    /\ calls[c].pc = "select_existing"
    /\ LET call == calls[c]
           rows == {d \in decks \cup call.tx_decks :
                        d.owner_id = call.req.user_id /\ d.title = Plan(call.req.format, call.req.data).title}
       IN  \E existing \in IF rows = {} THEN {None} ELSE {Some(d.id) : d \in rows} :
             calls' = [calls EXCEPT ![c] =
                IF existing.some
                THEN IF ~call.req.merge_duplicates
                     THEN Returned(call, Err("BadRequest"))
                     ELSE [call EXCEPT !.existing_deck = existing, !.deck_id = existing,
                                       !.pc = "insert_cards"]
                ELSE [call EXCEPT !.pc = "insert_deck"]]
    /\ UNCHANGED <<decks, cards, reader, validation, export, service, appends,
                refresh_tokens, password_reset_tokens, auth>>

\* the deck row each importer inserts
NewDeck(c) ==
    [id |-> NewId(c, 0), owner_id |-> calls[c].req.user_id,
     folder_id |-> calls[c].req.folder_id, title |-> Plan(calls[c].req.format, calls[c].req.data).title,
     is_public |-> FALSE]

\* .execute(&mut *tx) of INSERT INTO decks, run on the pool instead
ExecuteDeckInsertOnPool(c, row) ==
    /\ calls' = [calls EXCEPT ![c].deck_id = Some(row.id), ![c].pc = "insert_cards",
                              ![c].wrote = TRUE]
    /\ decks' = decks \cup {row}

\* INSERT INTO decks under a unique (owner_id, title): ON CONFLICT DO NOTHING
ExecuteDeckUpsert(c, row) ==
    /\ calls' = [calls EXCEPT
            ![c].tx_decks = IF \E d \in decks : d.owner_id = row.owner_id /\ d.title = row.title
                            THEN @ ELSE @ \cup {row},
            ![c].deck_id = Some(row.id), ![c].pc = "insert_cards", ![c].wrote = TRUE]
    /\ decks' = decks

\* .execute(&mut *tx) of INSERT INTO decks
ExecuteDeckInsert(c, row) ==
    /\ calls' = [calls EXCEPT ![c].tx_decks = @ \cup {row},
                              ![c].deck_id = Some(row.id), ![c].pc = "insert_cards",
                              ![c].wrote = TRUE]
    /\ decks' = decks

InsertDeck(c) ==
    /\ calls[c].pc = "insert_deck"
    /\ ExecuteDeckInsert(c, NewDeck(c))
    /\ UNCHANGED <<cards, reader, validation, export, service, appends,
                refresh_tokens, password_reset_tokens, auth>>

\* .execute(&mut *tx) of INSERT INTO cards, run on the pool instead
ExecuteCardInsertOnPool(c, row) ==
    /\ calls' = [calls EXCEPT ![c].next = @ + 1, ![c].imported_cards = @ + 1,
                              ![c].wrote = TRUE]
    /\ cards' = cards \cup {row}

\* .execute(&mut *tx) of INSERT INTO cards (json: ON CONFLICT (id) DO NOTHING)
ExecuteCardInsert(c, row) ==
    /\ calls' = [calls EXCEPT
            ![c].tx_cards = IF \E k \in cards \cup @ : k.id = row.id THEN @ ELSE @ \cup {row},
            ![c].next = @ + 1,
            ![c].imported_cards = @ + 1,
            ![c].wrote = TRUE]
    /\ cards' = cards

\* one round of the card loop
InsertCard(c) ==
    /\ calls[c].pc = "insert_cards"
    /\ calls[c].next <= Len(Plan(calls[c].req.format, calls[c].req.data).inserts)
    /\ LET call == calls[c]
           stmt == Plan(call.req.format, call.req.data).inserts[call.next]
       IN  ExecuteCardInsert(c, [id |-> NewId(c, call.next), deck_id |-> call.deck_id.val,
                                 front |-> stmt.front, back |-> stmt.back,
                                 position |-> stmt.position])
    /\ UNCHANGED <<decks, reader, validation, export, service, appends,
                refresh_tokens, password_reset_tokens, auth>>

\* the ImportResult of a committed import
Success(call) ==
    LET plan == Plan(call.req.format, call.req.data)
        card_count == IF call.req.format = "json" THEN call.imported_cards ELSE plan.count
    IN  ImportResult(TRUE,
            <<[id |-> call.deck_id.val, title |-> plan.title, card_count |-> card_count,
               was_merged |-> call.existing_deck.some]>>,
            <<>>, <<>>, card_count, 1)

\* tx.commit()
Commit(c) ==
    /\ calls[c].pc = "insert_cards"
    /\ calls[c].next > Len(Plan(calls[c].req.format, calls[c].req.data).inserts)
    /\ decks' = decks \cup calls[c].tx_decks
    /\ cards' = cards \cup calls[c].tx_cards
    /\ calls' = [calls EXCEPT ![c] = Returned(calls[c], Ok(Success(calls[c])))]
    /\ UNCHANGED <<reader, validation, export, service, appends,
                refresh_tokens, password_reset_tokens, auth>>

AwaitingStore(c) ==
    calls[c].pc \in {"begin", "select_existing", "insert_deck", "insert_cards"}

\* the awaited storage call (begin, select, insert or commit) returns an error:
\* `?` returns it and the transaction is rolled back on drop
StorageError(c) ==
    /\ AwaitingStore(c)
    /\ calls' = [calls EXCEPT ![c] = Returned(calls[c], Err("Database"))]
    /\ UNCHANGED <<decks, cards, reader, validation, export, service, appends,
                refresh_tokens, password_reset_tokens, auth>>

\* the request is timed out or cancelled at an await: the future is dropped,
\* and the transaction with it
Abort(c) ==
    /\ AwaitingStore(c)
    /\ calls' = [calls EXCEPT ![c] = Returned(calls[c], Aborted)]
    /\ UNCHANGED <<decks, cards, reader, validation, export, service, appends,
                refresh_tokens, password_reset_tokens, auth>>

ImportNext ==
    \E c \in CallIds :
        \/ \E req \in ImportRequests : StartImport(c, req)
        \/ Begin(c)
        \/ SelectExisting(c)
        \/ InsertDeck(c)
        \/ InsertCard(c)
        \/ Commit(c)
        \/ StorageError(c)
        \/ Abort(c)

Next == ImportNext

Spec == Init /\ [][Next]_vars

(***************************************************************************)
(* Read requests, run on the pool: every statement sees the committed rows *)
(* of the moment it runs.  The reader keeps the rows each statement        *)
(* returned (as a set: the order of the scan is not recorded here).        *)
(***************************************************************************)
StartedRead(op, user_id, deck_id) ==
    [IdleReader EXCEPT !.op = op, !.user_id = user_id, !.deck_id = deck_id,
                       !.committed_before = Committed]

\* export_deck and list_deck_cards, first statement:
\* SELECT ... FROM decks WHERE id = $1 AND owner_id = $2; NotFound without a row
ReadDeck(user_id, deck_id) ==
    /\ reader.pc \in {"idle", "done"}
    /\ LET rows == {d \in decks : d.id = deck_id /\ d.owner_id = user_id}
           read == StartedRead("read_deck", user_id, Some(deck_id))
       IN  reader' = IF rows = {}
                     THEN [read EXCEPT !.pc = "done"]
                     ELSE [read EXCEPT !.pc = "read_cards", !.found = TRUE,
                                       !.seen_decks = rows]
    /\ UNCHANGED <<decks, cards, calls, validation, export, service, appends,
                refresh_tokens, password_reset_tokens, auth>>

\* export_deck and list_deck_cards, second statement:
\* SELECT ... FROM cards WHERE deck_id = $1 ORDER BY position
ReadCards ==
    /\ reader.pc = "read_cards"
    /\ reader' = [reader EXCEPT !.pc = "done",
                                !.seen_cards = {k \in cards : k.deck_id = reader.deck_id.val}]
    /\ UNCHANGED <<decks, cards, calls, validation, export, service, appends,
                refresh_tokens, password_reset_tokens, auth>>

\* DeckService::list_user_decks: one statement, decks LEFT JOIN cards
ListUserDecks(user_id) ==
    /\ reader.pc \in {"idle", "done"}
    /\ LET rows == {d \in decks : d.owner_id = user_id}
       IN  reader' = [StartedRead("list_user_decks", user_id, None) EXCEPT
                            !.pc = "done", !.found = TRUE, !.seen_decks = rows,
                            !.seen_cards = {k \in cards : \E d \in rows : k.deck_id = d.id}]
    /\ UNCHANGED <<decks, cards, calls, validation, export, service, appends,
                refresh_tokens, password_reset_tokens, auth>>

ReaderNext ==
    \/ \E u \in Users, c \in CallIds : ReadDeck(u, NewId(c, 0))
    \/ ReadCards
    \/ \E u \in Users : ListUserDecks(u)

\* the uploads that run beside the reads: u1's JSON deck with
\* mergeDuplicates (a new deck the first time, a merge after that) and u1's
\* CSV file
ReadRequests ==
    {r \in ImportRequests : /\ r.user_id = "u1"
                            /\ Plan(r.format, r.data).ok
                            /\ \/ r.format = "json" /\ r.merge_duplicates
                               \/ r.format = "csv"}

NextRead ==
    \/ \E c \in CallIds :
        \/ \E req \in ReadRequests : StartImport(c, req)
        \/ Begin(c)
        \/ SelectExisting(c)
        \/ InsertDeck(c)
        \/ InsertCard(c)
        \/ Commit(c)
        \/ StorageError(c)
        \/ Abort(c)
    \/ ReaderNext

SpecRead == Init /\ [][NextRead]_vars

(***************************************************************************)
(* The validate_import handler: the service function on the uploaded file. *)
(***************************************************************************)
\* a handler that validates by importing into a scratch deck
ValidateByTrialImport(data, format) ==
    /\ validation' = [done |-> TRUE, format |-> format, data |-> data,
                      result |-> validate_import(data, format)]
    /\ decks' = decks \cup {[id |-> NewId(0, 0), owner_id |-> "u1", folder_id |-> None,
                             title |-> "validation", is_public |-> FALSE]}
    /\ UNCHANGED <<cards, calls, reader, export, service, appends,
                refresh_tokens, password_reset_tokens, auth>>

ValidateImport(data, format) ==
    /\ validation' = [done |-> TRUE, format |-> format, data |-> data,
                      result |-> validate_import(data, format)]
    /\ UNCHANGED <<decks, cards, calls, reader, export, service, appends,
                refresh_tokens, password_reset_tokens, auth>>

\* the upload that runs beside the validations
ValidateRequests ==
    {r \in ImportRequests : r.user_id = "u1" /\ r.format = "json"
                                /\ ~r.merge_duplicates /\ Plan(r.format, r.data).ok}

\* one validation request in a behaviour, at any moment of the upload
NextValidate ==
    \/ /\ ~validation.done
       /\ \E format \in Formats : \E data \in InputsFor(format) : ValidateImport(data, format)
    \/ \E req \in ValidateRequests : StartImport(1, req)
    \/ Begin(1)
    \/ SelectExisting(1)
    \/ InsertDeck(1)
    \/ InsertCard(1)
    \/ Commit(1)

SpecValidate == Init /\ [][NextValidate]_vars

(***************************************************************************)
(* Exports: the encoders.  Each takes the deck row and the card rows in    *)
(* the order the cards SELECT returned them, and writes a document.        *)
(* include_progress is left at its default (false) and the decks of the    *)
(* model have no description.                                              *)
(***************************************************************************)
ExportFormats == {"json", "csv", "anki", "markdown"}

\* the keys serde writes for an ExportedDeck and an ExportedCard (an Option
\* that is None is written as null)
ExportedDeckKeys == ExportedDeckRequired \cup {"description"}
ExportedCardKeys == ExportedCardRequired \cup {"explanation", "difficulty", "progress"}

\* the keys serde writes for an AnkiCard
AnkiCardKeys == {"nid", "ord", "did", "due", "ivl", "factor", "reps", "lapses"}

\* a JSON encoder whose metadata does not count the cards
ExportJsonWithoutCount(deck, cs) ==
    [syntax |-> "json", keys |-> ExportedDeckKeys, title |-> deck.title,
     cards |-> [i \in 1..Len(cs) |->
                    [keys |-> ExportedCardKeys, front |-> cs[i].front, back |-> cs[i].back]],
     notes |-> <<>>, total_cards |-> 0]

export_as_json(deck, cs) ==
    LET exported_cards ==
            [i \in 1..Len(cs) |->
                [keys |-> ExportedCardKeys, front |-> cs[i].front, back |-> cs[i].back]]
        total_cards == Len(exported_cards)
    IN  [syntax |-> "json", keys |-> ExportedDeckKeys, title |-> deck.title,
         cards |-> exported_cards, notes |-> <<>>, total_cards |-> total_cards]

\* a CSV encoder that writes no header for a deck without cards
ExportCsvWithoutHeader(deck, cs) ==
    [syntax |-> "csv",
     records |-> [i \in 1..Len(cs) |->
                    [fields |-> <<cs[i].front, cs[i].back, "", "", "">>, utf8 |-> TRUE]]]

\* csv::Writer: a field that holds a line break or a comma is written quoted,
\* and read back as written
export_as_csv(deck, cs) ==
    [syntax |-> "csv",
     records |-> <<[fields |-> <<"Front", "Back", "Tags", "Explanation", "Difficulty">>,
                    utf8 |-> TRUE]>>
                 \o [i \in 1..Len(cs) |->
                        [fields |-> <<cs[i].front, cs[i].back, "", "", "">>, utf8 |-> TRUE]]]

export_as_anki(deck, cs) ==
    [syntax |-> "json", keys |-> AnkiDeckRequired, title |-> deck.title,
     cards |-> [i \in 1..Len(cs) |-> [keys |-> AnkiCardKeys, nid |-> i]],
     notes |-> [i \in 1..Len(cs) |->
                    [keys |-> AnkiNoteRequired, fields |-> <<cs[i].front, cs[i].back>>]]]

\* the lines of a text
TextLines(s) == IF s = "q1\nq2" THEN <<"q1", "q2">> ELSE <<s>>

MdBlank == [pre |-> "", text |-> ""]
MdRule == [pre |-> "", text |-> "---"]

\* writeln!(markdown, "\n<pre> {}", s): a blank line, the marker with the first
\* line of s, then the other lines of s as lines of their own
MdField(pre, s) ==
    LET ls == TextLines(s)
    IN  <<MdBlank, [pre |-> pre, text |-> " " \o Head(ls)]>>
            \o [i \in 1..(Len(ls) - 1) |-> [pre |-> "", text |-> ls[i + 1]]]

RECURSIVE MdCards(_, _)
\* the card loop of export_as_markdown, from card i on
MdCards(cs, i) ==
    IF i > Len(cs) THEN <<>>
    ELSE <<[pre |-> "## Card", text |-> " " \o ToString(i)]>>
            \o MdField("**Front:**", cs[i].front)
            \o MdField("**Back:**", cs[i].back)
            \o <<MdBlank, MdRule, MdBlank>>
            \o MdCards(cs, i + 1)

export_as_markdown(deck, cs) ==
    [syntax |-> "md",
     lines |-> <<[pre |-> "# ", text |-> deck.title], MdRule, MdBlank>> \o MdCards(cs, 1)]

\* the encoder export_deck dispatches to
Encode(format, deck, cs) ==
    CASE format = "json" -> export_as_json(deck, cs)
      [] format = "csv" -> export_as_csv(deck, cs)
      [] format = "anki" -> export_as_anki(deck, cs)
      [] format = "markdown" -> export_as_markdown(deck, cs)

\* DeckService::export_csv: the header and one record per card
DeckCsv(cs) ==
    [syntax |-> "csv",
     records |-> <<[fields |-> <<"front", "back">>, utf8 |-> TRUE]>>
                 \o [i \in 1..Len(cs) |->
                        [fields |-> <<cs[i].front, cs[i].back>>, utf8 |-> TRUE]]]

(***************************************************************************)
(* Exports: export_deck, export_decks and DeckService::export_csv, one      *)
(* action per statement, run on the pool.                                   *)
(***************************************************************************)
\* ORDER BY position: the rows of S in ascending position, rows of equal
\* position in any order
OrderedByPosition(S) ==
    {s \in [1..Cardinality(S) -> S] :
        \A i, j \in 1..Cardinality(S) :
            i < j => s[i] # s[j] /\ s[i].position <= s[j].position}

\* a deck SELECT that does not look at the owner
AnyDeckRows(user_id, deck_id) == {d \in decks : d.id = deck_id}

\* export_deck: SELECT ... FROM decks WHERE id = $1 AND owner_id = $2
OwnedDeckRows(user_id, deck_id) ==
    {d \in decks : d.id = deck_id /\ d.owner_id = user_id}

\* DeckService::get_deck: WHERE id = $1 AND (owner_id = $2 OR is_public = true)
AccessibleDeckRows(user_id, deck_id) ==
    {d \in decks : d.id = deck_id /\ (d.owner_id = user_id \/ d.is_public)}

\* an export that returns: its locals are dropped
Finished(e, result) ==
    [e EXCEPT !.pc = "done", !.result = result, !.deck = None, !.all_data = <<>>]

\* the request is issued; export_decks over no id returns the empty payload
StartExport(op, user_id, deck_ids, format) ==
    /\ export.pc \in {"idle", "done"}
    /\ LET e == [IdleExport EXCEPT !.op = op, !.user_id = user_id,
                                   !.deck_ids = deck_ids, !.format = format]
       IN  export' = IF deck_ids = <<>> THEN Finished(e, Ok(<<>>))
                     ELSE [e EXCEPT !.pc = "read_deck"]
    /\ UNCHANGED <<decks, cards, calls, reader, validation, service, appends,
                refresh_tokens, password_reset_tokens, auth>>

\* a deck SELECT after which export_decks passes over an id without a row
ExportReadDeckSkipping ==
    /\ export.pc = "read_deck"
    /\ LET rows == OwnedDeckRows(export.user_id, export.deck_ids[export.i])
       IN  export' =
                IF rows # {}
                THEN [export EXCEPT !.deck = Some(CHOOSE d \in rows : TRUE), !.pc = "read_cards"]
                ELSE IF export.op # "export_decks" THEN Finished(export, Err("NotFound"))
                ELSE IF export.i = Len(export.deck_ids)
                THEN Finished(export, Ok(export.all_data))
                ELSE [export EXCEPT !.i = @ + 1]
    /\ UNCHANGED <<decks, cards, calls, reader, validation, service, appends,
                refresh_tokens, password_reset_tokens, auth>>

\* the deck SELECT; without a row the request fails with NotFound
ExportReadDeck ==
    /\ export.pc = "read_deck"
    /\ LET deck_id == export.deck_ids[export.i]
           rows == IF export.op = "export_csv"
                   THEN AccessibleDeckRows(export.user_id, deck_id)
                   ELSE OwnedDeckRows(export.user_id, deck_id)
       IN  export' = IF rows = {} THEN Finished(export, Err("NotFound"))
                     ELSE [export EXCEPT !.deck = Some(CHOOSE d \in rows : TRUE),
                                         !.pc = "read_cards"]
    /\ UNCHANGED <<decks, cards, calls, reader, validation, service, appends,
                refresh_tokens, password_reset_tokens, auth>>

\* the cards SELECT and the encoding; export_decks appends the payload to
\* all_data and goes on with the next id
ExportReadCards ==
    /\ export.pc = "read_cards"
    /\ \E cs \in OrderedByPosition({k \in cards : k.deck_id = export.deck.val.id}) :
        LET deck_data == IF export.op = "export_csv" THEN DeckCsv(cs)
                         ELSE Encode(export.format, export.deck.val, cs)
            e == [export EXCEPT !.read = Append(@, cs)]
        IN  export' =
                IF export.op # "export_decks" THEN Finished(e, Ok(deck_data))
                ELSE IF export.i = Len(export.deck_ids)
                THEN Finished(e, Ok(Append(export.all_data, deck_data)))
                ELSE [e EXCEPT !.all_data = Append(@, deck_data), !.i = @ + 1,
                               !.deck = None, !.pc = "read_deck"]
    /\ UNCHANGED <<decks, cards, calls, reader, validation, service, appends,
                refresh_tokens, password_reset_tokens, auth>>

\* the awaited SELECT returns an error: export_deck maps every error of its
\* deck SELECT to NotFound; the others leave through `?`
ExportStorageError ==
    /\ export.pc \in {"read_deck", "read_cards"}
    /\ export' = Finished(export,
            IF export.pc = "read_deck" /\ export.op # "export_csv"
            THEN Err("NotFound") ELSE Err("Database"))
    /\ UNCHANGED <<decks, cards, calls, reader, validation, service, appends,
                refresh_tokens, password_reset_tokens, auth>>

(***************************************************************************)
(* The store the exports run on: user u1's deck "A" with up to MaxCards    *)
(* cards and user u2's deck "B", public or not, with one card; the cards   *)
(* at the positions create_card gives them (0, 1, ...).                    *)
(***************************************************************************)
\* a one-line and a two-line text
CardTexts == {"q1", "q1\nq2"}

DeckA ==
    [id |-> NewId(0, 1), owner_id |-> "u1", folder_id |-> None, title |-> "A",
     is_public |-> FALSE]

DeckB(is_public) ==
    [id |-> NewId(0, 2), owner_id |-> "u2", folder_id |-> None, title |-> "B",
     is_public |-> is_public]

CardsIn(deck_id, fronts) ==
    {[id |-> NewId(0, 10 * deck_id.n + i), deck_id |-> deck_id, front |-> fronts[i],
      back |-> "a1", position |-> i - 1] : i \in 1..Len(fronts)}

\* the ids u1 asks for: u1's deck, u2's deck, and the id of no deck
ExportIds == {DeckA.id, NewId(0, 2), NewId(0, 3)}

\* the ids u2 asks for in bulk: u2's deck, the deck u2's upload creates, and
\* u1's deck
BulkIds == {NewId(0, 2), NewId(1, 0), DeckA.id}

InitExport ==
    /\ \E is_public \in BOOLEAN, fronts \in SeqsUpTo(CardTexts, MaxCards) :
        /\ decks = {DeckA, DeckB(is_public)}
        /\ cards = CardsIn(DeckA.id, fronts) \cup CardsIn(NewId(0, 2), <<"q1">>)
    /\ calls = [c \in CallIds |-> IdleCall]
    /\ reader = IdleReader
    /\ validation = [done |-> FALSE]
    /\ export = IdleExport
    /\ service = IdleService
    /\ appends = [a \in AppendIds |-> IdleService]
    /\ refresh_tokens = IssuedTokens
    /\ password_reset_tokens = IssuedResetTokens
    /\ auth = [a \in AuthIds |-> IdleAuth]

\* user u2, who owns no deck titled "A", uploads what export_deck returned to
\* u1, under the format it was exported with
RoundTripRequests ==
    IF export.pc = "done" /\ export.op = "export_deck" /\ export.result.kind = "Ok"
    THEN {[user_id |-> "u2", format |-> export.format, data |-> export.result.value,
           folder_id |-> None, merge_duplicates |-> FALSE]}
    ELSE {}

NextExport ==
    \/ \E id \in ExportIds, format \in ExportFormats :
            StartExport("export_deck", "u1", <<id>>, format)
    \/ \E ids \in SeqsUpTo(BulkIds, 2), format \in ExportFormats :
            StartExport("export_decks", "u2", ids, format)
    \/ \E id \in ExportIds : StartExport("export_csv", "u1", <<id>>, "csv")
    \/ ExportReadDeck
    \/ ExportReadCards
    \/ ExportStorageError
    \/ \E req \in RoundTripRequests : StartImport(1, req)
    \/ Begin(1)
    \/ SelectExisting(1)
    \/ InsertDeck(1)
    \/ InsertCard(1)
    \/ Commit(1)

SpecExport == InitExport /\ [][NextExport]_vars

(***************************************************************************)
(* DeckService::import_csv, CardService::create_card and                   *)
(* CardService::bulk_create_cards, one action per awaited statement.       *)
(***************************************************************************)
\* the call component of the identifiers the store draws for the rows of the
\* service request
ServiceCall == MaxCalls + 1

\* reader.deserialize::<CsvCard>(): the items of the iterator, in order; a
\* record deserializes when the reader yields it and the header names the
\* columns front and back
CsvCardItems(csv_content) ==
    LET header == Head(csv_content.records).fields
        column(name) == CHOOSE i \in 1..Len(header) : header[i] = name
        recs == CsvDataRecords(csv_content)
    IN  [i \in 1..Len(recs) |->
            IF /\ CsvRecordOk(csv_content, i)
               /\ {"front", "back"} \subseteq {header[j] : j \in 1..Len(header)}
            THEN [ok |-> TRUE, front |-> recs[i].fields[column("front")],
                  back |-> recs[i].fields[column("back")], position |-> None]
            ELSE [ok |-> FALSE, front |-> "", back |-> "", position |-> None]]

\* Vec<CreateCardDto>
DtoItems(n, position) ==
    [i \in 1..n |-> [ok |-> TRUE, front |-> "q1", back |-> "a1", position |-> position]]

\* the CSV texts posted to DeckService::import_csv: MaxCards rows, all of them
\* well formed or the last one a field short, or a header without the columns
ServiceCsvTexts ==
    {[syntax |-> "csv",
      records |-> <<[fields |-> <<"front", "back">>, utf8 |-> TRUE]>>
                    \o DataRows(MaxCards, ragged)] : ragged \in BOOLEAN}
        \cup {[syntax |-> "csv",
               records |-> <<[fields |-> <<"question", "answer">>, utf8 |-> TRUE]>>
                            \o DataRows(MaxCards, FALSE)]}

\* the requests: [op, rows]
ServiceRequests ==
    {[op |-> "import_csv", rows |-> CsvCardItems(t)] : t \in ServiceCsvTexts}
        \cup {[op |-> "create_card", rows |-> DtoItems(1, p)] : p \in {None, Some(0)}}
        \cup {[op |-> "bulk_create_cards", rows |-> DtoItems(MaxCards, None)]}
\* a position query that takes every deck for an empty one
NoPosition(deck_id) == -1

\* SELECT COALESCE(MAX(position), -1) FROM cards WHERE deck_id = $1
MaxPosition(deck_id) ==
    LET ps == {k.position : k \in {c \in cards : c.deck_id = deck_id}}
    IN  IF ps = {} THEN -1 ELSE CHOOSE m \in ps : \A p \in ps : p <= m

\* a deck check that stops at get_deck (owner or public)
DeckCheckByAccess(op, user_id, deck_id) ==
    IF op = "import_csv"
    THEN IF AccessibleDeckRows(user_id, deck_id) = {} THEN "NotFound" ELSE "Ok"
    ELSE IF \A d \in decks : d.id # deck_id THEN "NotFound"
    ELSE IF \E d \in decks : d.id = deck_id /\ d.owner_id # user_id THEN "Forbidden"
    ELSE "Ok"

\* "Verify deck ownership": import_csv calls get_deck and compares the owner;
\* create_card and bulk_create_cards select the owner by id and compare it
DeckCheck(op, user_id, deck_id) ==
    IF op = "import_csv" /\ AccessibleDeckRows(user_id, deck_id) = {} THEN "NotFound"
    ELSE IF \A d \in decks : d.id # deck_id THEN "NotFound"
    ELSE IF \E d \in decks : d.id = deck_id /\ d.owner_id # user_id THEN "Forbidden"
    ELSE "Ok"

\* a request that returns: its locals are dropped, and with them the
\* transaction handle, if any
Served(s, result) ==
    [s EXCEPT !.pc = "done", !.result = result, !.tx_cards = {}]

\* the code between two awaited statements: the next item of the loop
Advance(s) ==
    CASE s.op = "import_csv" ->
            IF s.next > Len(s.rows) THEN Served(s, Ok(s.created))
            ELSE IF ~s.rows[s.next].ok THEN Served(s, Err("CsvError"))
            ELSE [s EXCEPT !.pc = "insert"]
      [] s.op = "create_card" ->
            IF s.next > Len(s.rows) THEN Served(s, Ok(s.created))
            ELSE [s EXCEPT !.pc = "insert"]
      [] s.op = "bulk_create_cards" ->
            IF s.next > Len(s.rows) THEN [s EXCEPT !.pc = "commit"]
            ELSE [s EXCEPT !.pc = "insert"]

\* the request is issued
StartService(req, user_id, deck_id) ==
    /\ service.pc = "idle"
    /\ service' = [IdleService EXCEPT
            !.pc = "check_deck", !.op = req.op, !.user_id = user_id,
            !.deck_id = Some(deck_id), !.rows = req.rows,
            !.held = {k \in cards : k.deck_id = deck_id}]
    /\ UNCHANGED <<decks, cards, calls, reader, validation, export, appends,
                refresh_tokens, password_reset_tokens, auth>>

\* the deck SELECT and the comparison of the owner
ServiceCheckDeck ==
    /\ service.pc = "check_deck"
    /\ LET verdict == DeckCheck(service.op, service.user_id, service.deck_id.val)
       IN  service' =
                IF verdict # "Ok" THEN Served(service, Err(verdict))
                ELSE IF service.op = "create_card" /\ service.rows[1].position.some
                THEN [service EXCEPT !.pc = "insert"]
                ELSE [service EXCEPT !.pc = "max_position"]
    /\ UNCHANGED <<decks, cards, calls, reader, validation, export, appends,
                refresh_tokens, password_reset_tokens, auth>>

\* the MAX(position) SELECT; bulk_create_cards begins its transaction next
ServiceMaxPosition ==
    /\ service.pc = "max_position"
    /\ LET s == [service EXCEPT !.position = MaxPosition(service.deck_id.val) + 1]
       IN  service' = IF s.op = "bulk_create_cards" THEN [s EXCEPT !.pc = "begin"]
                      ELSE Advance(s)
    /\ UNCHANGED <<decks, cards, calls, reader, validation, export, appends,
                refresh_tokens, password_reset_tokens, auth>>

\* db.begin() of bulk_create_cards
ServiceBegin ==
    /\ service.pc = "begin"
    /\ service' = Advance(service)
    /\ UNCHANGED <<decks, cards, calls, reader, validation, export, appends,
                refresh_tokens, password_reset_tokens, auth>>

\* INSERT INTO cards ... RETURNING: on the pool for import_csv and create_card,
\* on the transaction for bulk_create_cards
ServiceInsert ==
    /\ service.pc = "insert"
    /\ LET item == service.rows[service.next]
           row == [id |-> NewId(ServiceCall, service.next),
                   deck_id |-> service.deck_id.val,
                   front |-> item.front, back |-> item.back,
                   position |-> IF item.position.some THEN item.position.val
                                ELSE service.position]
           s == [service EXCEPT !.created = Append(@, row), !.position = @ + 1,
                                !.next = @ + 1]
       IN  IF service.op = "bulk_create_cards"
           THEN /\ service' = Advance([s EXCEPT !.tx_cards = @ \cup {row}])
                /\ cards' = cards
           ELSE /\ service' = Advance(s)
                /\ cards' = cards \cup {row}
    /\ UNCHANGED <<decks, calls, reader, validation, export, appends,
                refresh_tokens, password_reset_tokens, auth>>

\* tx.commit() of bulk_create_cards
ServiceCommit ==
    /\ service.pc = "commit"
    /\ cards' = cards \cup service.tx_cards
    /\ service' = Served(service, Ok(service.created))
    /\ UNCHANGED <<decks, calls, reader, validation, export, appends,
                refresh_tokens, password_reset_tokens, auth>>

\* the awaited statement returns an error, which leaves through `?`
ServiceStorageError ==
    /\ service.pc \in {"check_deck", "max_position", "begin", "insert", "commit"}
    /\ service' = Served(service, Err("Database"))
    /\ UNCHANGED <<decks, cards, calls, reader, validation, export, appends,
                refresh_tokens, password_reset_tokens, auth>>

\* the uploads that run beside the service request: those import_decks accepts
ServiceImports ==
    {r \in ImportRequests : /\ validate_import(r.data, r.format).is_valid
                            /\ Plan(r.format, r.data).ok}

\* one service request in a behaviour, on u1's deck, u2's deck or no deck, at
\* any moment of an upload
NextService ==
    \/ \E req \in ServiceRequests, user_id \in Users, deck_id \in ExportIds :
            StartService(req, user_id, deck_id)
    \/ ServiceCheckDeck
    \/ ServiceMaxPosition
    \/ ServiceBegin
    \/ ServiceInsert
    \/ ServiceCommit
    \/ ServiceStorageError
    \/ \E req \in ServiceImports : StartImport(1, req)
    \/ Begin(1)
    \/ SelectExisting(1)
    \/ InsertDeck(1)
    \/ InsertCard(1)
    \/ Commit(1)

SpecService == InitExport /\ [][NextService]_vars

(***************************************************************************)
(* One upload of any document of the model, in each declared format, into  *)
(* an empty store: what the validator says of the bytes beside what the    *)
(* importer decodes from them and persists.                                *)
(***************************************************************************)
DecodeRequests ==
    UNION {[user_id : {"u1"}, format : {f}, data : InputsFor(f),
            folder_id : {None}, merge_duplicates : {FALSE}] : f \in Formats}

NextDecode ==
    \/ /\ calls[1].pc = "idle"
       /\ \E req \in DecodeRequests : StartImport(1, req)
    \/ Begin(1)
    \/ SelectExisting(1)
    \/ InsertDeck(1)
    \/ InsertCard(1)
    \/ Commit(1)

SpecDecode == Init /\ [][NextDecode]_vars

(***************************************************************************)
(* Appends side by side: each request of AppendIds is a                    *)
(* DeckService::import_csv, a CardService::create_card without a position  *)
(* or a CardService::bulk_create_cards, run statement by statement as      *)
(* above, the statements of the requests interleaved in any order.         *)
(***************************************************************************)
\* the requests that append: a well-formed CSV, one card without position, or
\* a batch
AppendRequests ==
    {r \in ServiceRequests :
        \A i \in 1..Len(r.rows) : r.rows[i].ok /\ ~r.rows[i].position.some}

\* the request is issued
StartAppend(a, req, user_id, deck_id) ==
    /\ appends[a].pc = "idle"
    /\ \A b \in AppendIds : b < a => appends[b].pc # "idle"
    /\ appends' = [appends EXCEPT ![a] = [IdleService EXCEPT
            !.pc = "check_deck", !.op = req.op, !.user_id = user_id,
            !.deck_id = Some(deck_id), !.rows = req.rows,
            !.held = {k \in cards : k.deck_id = deck_id}]]
    /\ UNCHANGED <<decks, cards, calls, reader, validation, export, service,
                   refresh_tokens, password_reset_tokens, auth>>

\* the deck SELECT and the comparison of the owner
AppendCheckDeck(a) ==
    /\ appends[a].pc = "check_deck"
    /\ LET verdict == DeckCheck(appends[a].op, appends[a].user_id, appends[a].deck_id.val)
       IN  appends' = [appends EXCEPT ![a] =
                IF verdict # "Ok" THEN Served(@, Err(verdict))
                ELSE [@ EXCEPT !.pc = "max_position"]]
    /\ UNCHANGED <<decks, cards, calls, reader, validation, export, service,
                   refresh_tokens, password_reset_tokens, auth>>

\* the MAX(position) SELECT; bulk_create_cards begins its transaction next
AppendMaxPosition(a) ==
    /\ appends[a].pc = "max_position"
    /\ LET s == [appends[a] EXCEPT !.position = MaxPosition(appends[a].deck_id.val) + 1]
       IN  appends' = [appends EXCEPT ![a] =
                IF s.op = "bulk_create_cards" THEN [s EXCEPT !.pc = "begin"]
                ELSE Advance(s)]
    /\ UNCHANGED <<decks, cards, calls, reader, validation, export, service,
                   refresh_tokens, password_reset_tokens, auth>>

\* db.begin() of bulk_create_cards
AppendBegin(a) ==
    /\ appends[a].pc = "begin"
    /\ appends' = [appends EXCEPT ![a] = Advance(@)]
    /\ UNCHANGED <<decks, cards, calls, reader, validation, export, service,
                   refresh_tokens, password_reset_tokens, auth>>

\* INSERT INTO cards ... RETURNING: on the pool for import_csv and create_card,
\* on the transaction for bulk_create_cards
AppendInsert(a) ==
    /\ appends[a].pc = "insert"
    /\ LET row == [id |-> NewId(ServiceCall + a, appends[a].next),
                   deck_id |-> appends[a].deck_id.val,
                   front |-> appends[a].rows[appends[a].next].front,
                   back |-> appends[a].rows[appends[a].next].back,
                   position |-> appends[a].position]
           s == [appends[a] EXCEPT !.created = Append(@, row), !.position = @ + 1,
                                   !.next = @ + 1]
       IN  IF appends[a].op = "bulk_create_cards"
           THEN /\ appends' = [appends EXCEPT ![a] =
                                    Advance([s EXCEPT !.tx_cards = @ \cup {row}])]
                /\ cards' = cards
           ELSE /\ appends' = [appends EXCEPT ![a] = Advance(s)]
                /\ cards' = cards \cup {row}
    /\ UNCHANGED <<decks, calls, reader, validation, export, service,
                   refresh_tokens, password_reset_tokens, auth>>

\* tx.commit() of bulk_create_cards
AppendCommit(a) ==
    /\ appends[a].pc = "commit"
    /\ cards' = cards \cup appends[a].tx_cards
    /\ appends' = [appends EXCEPT ![a] = Served(@, Ok(@.created))]
    /\ UNCHANGED <<decks, calls, reader, validation, export, service,
                   refresh_tokens, password_reset_tokens, auth>>

\* the awaited statement returns an error, which leaves through `?`
AppendStorageError(a) ==
    /\ appends[a].pc \in {"check_deck", "max_position", "begin", "insert", "commit"}
    /\ appends' = [appends EXCEPT ![a] = Served(@, Err("Database"))]
    /\ UNCHANGED <<decks, cards, calls, reader, validation, export, service,
                   refresh_tokens, password_reset_tokens, auth>>

\* requests of either user on u1's deck, u2's deck or no deck
NextAppend ==
    \E a \in AppendIds :
        \/ \E req \in AppendRequests, user_id \in Users, deck_id \in ExportIds :
                StartAppend(a, req, user_id, deck_id)
        \/ AppendCheckDeck(a)
        \/ AppendMaxPosition(a)
        \/ AppendBegin(a)
        \/ AppendInsert(a)
        \/ AppendCommit(a)
        \/ AppendStorageError(a)

SpecAppend == InitExport /\ [][NextAppend]_vars

(***************************************************************************)
(* Uploads into a folder.  Table folders holds one folder of each user and *)
(* is not written by any operation of the model.                           *)
(***************************************************************************)
Folders == {[id |-> "f1", user_id |-> "u1"], [id |-> "f2", user_id |-> "u2"]}

\* the folder_id of ImportQuery: absent, or the id of a folder
FolderRequests ==
    UNION {[user_id : Users, format : {f}, data : ImportDocs(f),
            folder_id : {None} \cup {Some(g.id) : g \in Folders},
            merge_duplicates : {FALSE}] : f \in Formats}

NextFolder ==
    \/ \E req \in FolderRequests : StartImport(1, req)
    \/ Begin(1)
    \/ SelectExisting(1)
    \/ InsertDeck(1)
    \/ InsertCard(1)
    \/ Commit(1)

SpecFolder == Init /\ [][NextFolder]_vars

(***************************************************************************)
(* AuthService::refresh_token, logout and reset_password, one action per   *)
(* awaited statement, every statement run on the pool.  Table users is not *)
(* written to by these requests except for the password hash, which the    *)
(* model leaves out.                                                       *)
(***************************************************************************)
\* the request is issued: refresh_token with a token of the table or one that
\* was never issued, logout of a user, reset_password with the reset token or
\* one that was never issued
StartAuth(a, op, refresh_token, user_id, token) ==
    /\ auth[a].pc = "idle"
    /\ \A b \in AuthIds : b < a => auth[b].pc # "idle"
    /\ auth' = [auth EXCEPT ![a] = [IdleAuth EXCEPT
            !.pc = CASE op = "refresh_token" -> "select_token"
                     [] op = "logout" -> "revoke_all"
                     [] op = "reset_password" -> "select_reset",
            !.op = op, !.refresh_token = refresh_token, !.user_id = user_id,
            !.token = token,
            !.revoked_before = {r.token : r \in {x \in refresh_tokens : x.revoked}}]]
    /\ UNCHANGED <<decks, cards, calls, reader, validation, export, service, appends,
                   refresh_tokens, password_reset_tokens>>

\* SELECT * FROM refresh_tokens WHERE token = $1 AND revoked_at IS NULL ...
AuthSelectToken(a) ==
    /\ auth[a].pc = "select_token"
    /\ LET found == {r \in refresh_tokens : r.token = auth[a].refresh_token /\ ~r.revoked}
       IN  auth' = [auth EXCEPT ![a] =
                IF found = {} THEN [@ EXCEPT !.pc = "done", !.result = Err("Unauthorized")]
                ELSE [@ EXCEPT !.pc = "select_user",
                               !.token_record = Some(CHOOSE r \in found : TRUE)]]
    /\ UNCHANGED <<decks, cards, calls, reader, validation, export, service, appends,
                   refresh_tokens, password_reset_tokens>>

\* SELECT * FROM users WHERE id = $1
AuthSelectUser(a) ==
    /\ auth[a].pc = "select_user"
    /\ auth' = [auth EXCEPT ![a] = [@ EXCEPT !.pc = "revoke"]]
    /\ UNCHANGED <<decks, cards, calls, reader, validation, export, service, appends,
                   refresh_tokens, password_reset_tokens>>

\* UPDATE refresh_tokens SET revoked_at = NOW() WHERE id = $1
AuthRevoke(a) ==
    /\ auth[a].pc = "revoke"
    /\ refresh_tokens' =
            {IF r.token = auth[a].token_record.val.token THEN [r EXCEPT !.revoked = TRUE]
             ELSE r : r \in refresh_tokens}
    /\ auth' = [auth EXCEPT ![a] = [@ EXCEPT !.pc = "insert_token"]]
    /\ UNCHANGED <<decks, cards, calls, reader, validation, export, service, appends,
                   password_reset_tokens>>

\* generate_tokens: INSERT INTO refresh_tokens; the response carries the token
AuthInsertToken(a) ==
    /\ auth[a].pc = "insert_token"
    /\ refresh_tokens' = refresh_tokens \cup {TokenRow(a, auth[a].token_record.val.user_id)}
    /\ auth' = [auth EXCEPT ![a] =
            [@ EXCEPT !.pc = "done",
                      !.result = Ok(TokenOf(a, auth[a].token_record.val.user_id))]]
    /\ UNCHANGED <<decks, cards, calls, reader, validation, export, service, appends,
                   password_reset_tokens>>

\* SELECT user_id FROM password_reset_tokens WHERE token = $1 AND used_at IS NULL ...
AuthSelectReset(a) ==
    /\ auth[a].pc = "select_reset"
    /\ LET found == {r \in password_reset_tokens : r.token = auth[a].token /\ ~r.used}
       IN  auth' = [auth EXCEPT ![a] =
                IF found = {} THEN [@ EXCEPT !.pc = "done", !.result = Err("BadRequest")]
                ELSE [@ EXCEPT !.pc = "update_password",
                               !.user_id = (CHOOSE r \in found : TRUE).user_id]]
    /\ UNCHANGED <<decks, cards, calls, reader, validation, export, service, appends,
                   refresh_tokens, password_reset_tokens>>

\* UPDATE users SET password_hash = $1
AuthUpdatePassword(a) ==
    /\ auth[a].pc = "update_password"
    /\ auth' = [auth EXCEPT ![a] = [@ EXCEPT !.pc = "mark_used"]]
    /\ UNCHANGED <<decks, cards, calls, reader, validation, export, service, appends,
                   refresh_tokens, password_reset_tokens>>

\* UPDATE password_reset_tokens SET used_at = NOW() WHERE token = $1
AuthMarkUsed(a) ==
    /\ auth[a].pc = "mark_used"
    /\ password_reset_tokens' =
            {IF r.token = auth[a].token THEN [r EXCEPT !.used = TRUE] ELSE r :
                r \in password_reset_tokens}
    /\ auth' = [auth EXCEPT ![a] = [@ EXCEPT !.pc = "revoke_all"]]
    /\ UNCHANGED <<decks, cards, calls, reader, validation, export, service, appends,
                   refresh_tokens>>

\* the last statement of logout and of reset_password:
\* UPDATE refresh_tokens SET revoked_at = NOW()
\*     WHERE user_id = $1 AND revoked_at IS NULL
AuthRevokeAll(a) ==
    /\ auth[a].pc = "revoke_all"
    /\ refresh_tokens' =
            {IF r.user_id = auth[a].user_id THEN [r EXCEPT !.revoked = TRUE] ELSE r :
                r \in refresh_tokens}
    /\ auth' = [auth EXCEPT ![a] = [@ EXCEPT !.pc = "done", !.result = Ok("none")]]
    /\ UNCHANGED <<decks, cards, calls, reader, validation, export, service, appends,
                   password_reset_tokens>>

\* the awaited statement returns an error, which leaves through `?`
AuthStorageError(a) ==
    /\ auth[a].pc \notin {"idle", "done"}
    /\ auth' = [auth EXCEPT ![a] = [@ EXCEPT !.pc = "done", !.result = Err("Database")]]
    /\ UNCHANGED <<decks, cards, calls, reader, validation, export, service, appends,
                   refresh_tokens, password_reset_tokens>>

NextAuth ==
    \E a \in AuthIds :
        \/ \E t \in {r.token : r \in refresh_tokens} \cup {UnknownToken} :
                StartAuth(a, "refresh_token", t, "u1", "none")
        \/ \E u \in Users : StartAuth(a, "logout", UnknownToken, u, "none")
        \/ \E t \in {"r1", "r0"} : StartAuth(a, "reset_password", UnknownToken, "u1", t)
        \/ AuthSelectToken(a)
        \/ AuthSelectUser(a)
        \/ AuthRevoke(a)
        \/ AuthInsertToken(a)
        \/ AuthSelectReset(a)
        \/ AuthUpdatePassword(a)
        \/ AuthMarkUsed(a)
        \/ AuthRevokeAll(a)
        \/ AuthStorageError(a)

SpecAuth == Init /\ [][NextAuth]_vars

(***************************************************************************)
(* Properties.                                                             *)
(***************************************************************************)
\* the rows of the store that call c inserted
DecksOf(c) == {d \in decks : d.id.call = c}
CardsOf(c) == {k \in cards : k.id.call = c}

Failed(c) == calls[c].pc = "done" /\ calls[c].result.kind \in {"Err", "aborted"}

\* the validator and the importer's decoder both accept the upload of call c
Accepted(c) ==
    /\ validate_import(calls[c].req.data, calls[c].req.format).is_valid
    /\ Plan(calls[c].req.format, calls[c].req.data).ok

\* the decks with the title call c imports that its user owned when c was issued
DuplicatesBefore(c) ==
    {d \in decks : /\ d.id.call \in calls[c].before
                   /\ d.owner_id = calls[c].req.user_id
                   /\ d.title = Plan(calls[c].req.format, calls[c].req.data).title}

SetMax(S) == CHOOSE m \in S : \A x \in S : x <= m

\* C1: an import call that has not committed (a storage step failed, the call
\* was aborted, or it is still running) has no deck and no card in the store
AllOrNothing ==
    \A c \in CallIds \ Committed : DecksOf(c) = {} /\ CardsOf(c) = {}

\* C1 witness: one call failed on a storage error and another was aborted,
\* each after it had executed an INSERT
AllOrNothingWitness ==
    \E c1, c2 \in CallIds :
        /\ calls[c1].result = Err("Database") /\ calls[c1].wrote
        /\ calls[c2].result = Aborted /\ calls[c2].wrote

\* the rows of call c that a finished read had in its scope
InScope(c) ==
    {k \in CardsOf(c) :
        IF reader.op = "read_deck"
        THEN k.deck_id = reader.deck_id.val
        ELSE \E d \in decks : d.id = k.deck_id /\ d.owner_id = reader.user_id}

\* C2: a read returns no deck and no card of an import that has not committed;
\* of a committed import it returns all the cards in its scope or none of
\* them; a read issued after the commit returns the deck and all the cards
CommitVisibility ==
    /\ \A d \in reader.seen_decks : d.id.call \in Committed
    /\ \A k \in reader.seen_cards : k.id.call \in Committed
    /\ reader.pc = "done" /\ reader.found =>
        /\ \A c \in Committed :
                InScope(c) \cap reader.seen_cards = {} \/ InScope(c) \subseteq reader.seen_cards
        /\ \A d \in reader.seen_decks : InScope(d.id.call) \subseteq reader.seen_cards
        /\ \A c \in reader.committed_before : InScope(c) \subseteq reader.seen_cards
    /\ reader.pc = "done" =>
        \A c \in reader.committed_before : \A d \in DecksOf(c) :
            (IF reader.op = "read_deck" THEN d.id = reader.deck_id.val ELSE TRUE)
                /\ d.owner_id = reader.user_id
            => d \in reader.seen_decks

\* C2 witness: a read of a deck returned the cards of two imports, one of
\* which committed after the read was issued
CommitVisibilityWitness ==
    /\ reader.pc = "done" /\ reader.op = "read_deck" /\ reader.found
    /\ \E k1, k2 \in reader.seen_cards :
        /\ k1.id.call \in reader.committed_before
        /\ k2.id.call \notin reader.committed_before

\* C3: a step of the validate_import handler leaves decks and cards as they are
ValidationWithoutPersistence ==
    [][validation' # validation => decks' = decks /\ cards' = cards]_vars

\* C3 witness: a file was validated and found valid while the store held a deck
\* and an upload was in progress
ValidationWithoutPersistenceWitness ==
    /\ validation.done /\ validation.result.is_valid /\ validation.result.card_count > 0
    /\ decks # {}

\* C4: an upload the validator turns down returns at once, with success=false,
\* no imported deck, zero totals and the validator's errors and warnings; it
\* never reaches db.begin() and writes nothing
InvalidImportRejected ==
    \A c \in CallIds :
        LET v == validate_import(calls[c].req.data, calls[c].req.format)
        IN  calls[c].pc # "idle" /\ ~v.is_valid =>
                /\ calls[c].pc = "done"
                /\ calls[c].result = Ok(ImportResult(FALSE, <<>>, v.errors, v.warnings, 0, 0))
                /\ ~calls[c].wrote
                /\ DecksOf(c) = {} /\ CardsOf(c) = {}

\* C4 witness: an upload was turned down with the validator's error while the
\* store held a deck
InvalidImportRejectedWitness ==
    /\ decks # {}
    /\ \E c \in CallIds :
        /\ calls[c].pc = "done" /\ calls[c].result.kind = "Ok"
        /\ ~calls[c].result.value.success
        /\ calls[c].result.value.errors # <<>>

\* C5: an accepted upload without mergeDuplicates, whose user owned a deck of
\* the imported title when the call was issued, fails and leaves no row
DuplicateRejection ==
    \A c \in CallIds :
        /\ calls[c].pc = "done" /\ Accepted(c)
        /\ DuplicatesBefore(c) # {} /\ ~calls[c].req.merge_duplicates
        => Failed(c) /\ DecksOf(c) = {} /\ CardsOf(c) = {}

\* C6: a committed upload with mergeDuplicates, whose user owned a deck of the
\* imported title when the call was issued, creates no deck, attaches its cards
\* to such a deck and reports was_merged; and was_merged is reported only by a
\* call that created no deck
MergeTargeting ==
    \A c \in Committed :
        LET was_merged == calls[c].result.value.imported_decks[1].was_merged
        IN  /\ DuplicatesBefore(c) # {} /\ calls[c].req.merge_duplicates =>
                /\ DecksOf(c) = {}
                /\ \A k \in CardsOf(c) : \E d \in DuplicatesBefore(c) : k.deck_id = d.id
                /\ was_merged
            /\ was_merged => DecksOf(c) = {}

\* C7 (the merge clause): the cards a committed import added to a deck that
\* held cards when the call was issued have the positions max+1, max+2, ...
\* in the order of insertion, max being the largest position held before
PositionOnMerge ==
    \A c \in Committed :
        LET mine == CardsOf(c)
            prior == {k \in cards : /\ k.id.call \in calls[c].before
                                    /\ \E m \in mine : m.deck_id = k.deck_id}
            base == SetMax({k.position : k \in prior}) + 1
        IN  mine # {} /\ prior # {} =>
                /\ {k.position : k \in mine} = base..(base + Cardinality(mine) - 1)
                /\ \A k1, k2 \in mine : k1.id.n < k2.id.n => k1.position < k2.position

\* C8: the cards a committed import put in the deck it created have the
\* positions 0..K-1, in the order of insertion
PositionDensity ==
    \A c \in Committed :
        LET mine == CardsOf(c)
        IN  DecksOf(c) # {} =>
                /\ {k.position : k \in mine} = 0..(Cardinality(mine) - 1)
                /\ \A k1, k2 \in mine : k1.id.n < k2.id.n => k1.position < k2.position

\* C9: after the same JSON document was imported twice by one user with
\* mergeDuplicates, the second call issued after the first had committed,
\* the user owns one deck of that title and it holds as many cards as the
\* document
IdempotentReimport ==
    \A c1, c2 \in Committed :
        /\ c1 \in calls[c2].before
        /\ calls[c1].req = calls[c2].req
        /\ calls[c1].req.format = "json" /\ calls[c1].req.merge_duplicates
        => LET title == JsonPlan(calls[c1].req.data).title
               owned == {d \in decks : d.owner_id = calls[c1].req.user_id /\ d.title = title}
           IN  /\ Cardinality(owned) = 1
               /\ \A d \in owned :
                    Cardinality({k \in cards : k.deck_id = d.id})
                        = Len(JsonPlan(calls[c1].req.data).inserts)

\* C10: the validator's answer on a file: errors exactly when the importer's
\* decoder turns the file down; a warning, deck_count 1 and card_count 0 when
\* it decodes to zero records; is_valid exactly when there is no error
ValidatorClassification ==
    validation.done =>
        LET v == validation.result
            plan == Plan(validation.format, validation.data)
        IN  /\ ~plan.ok => ~v.is_valid /\ v.errors # <<>>
            /\ plan.ok /\ plan.count = 0 =>
                    v.is_valid /\ v.warnings # <<>> /\ v.deck_count = 1 /\ v.card_count = 0
            /\ v.is_valid <=> v.errors = <<>>

\* C11: a JSON document that carries a title and a list of cards, each with
\* front and back (the shape of the served sample), validates with is_valid
MinimalJsonImport ==
    /\ validation.done /\ validation.format = "json"
    /\ validation.data.syntax = "json"
    /\ {"title", "cards"} \subseteq validation.data.keys
    /\ \A i \in 1..Len(validation.data.cards) :
            {"front", "back"} \subseteq validation.data.cards[i].keys
    => validation.result.is_valid

\* C12: a JSON deck document without the `cards` field, otherwise complete,
\* validates as a deck of zero cards: is_valid, deck_count 1, card_count 0,
\* a warning and no error
JsonWithoutCards ==
    /\ validation.done /\ validation.format = "json"
    /\ validation.data.syntax = "json"
    /\ validation.data.keys = ExportedDeckRequired \ {"cards"}
    => /\ validation.result.is_valid
       /\ validation.result.deck_count = 1 /\ validation.result.card_count = 0
       /\ validation.result.warnings # <<>> /\ validation.result.errors = <<>>

\* the JSON imports that found no deck of their title and committed
CreatedByJson ==
    {c \in Committed : /\ calls[c].req.format = "json"
                       /\ ~calls[c].result.value.imported_decks[1].was_merged}

\* C17: two JSON imports of one title by one user that both found no deck of
\* that title and both committed have each left a deck of that title, so the
\* user owns two; and neither had committed when the other was issued
DuplicateTitleRace ==
    \A c1, c2 \in CreatedByJson :
        /\ c1 # c2
        /\ calls[c1].req.user_id = calls[c2].req.user_id
        /\ JsonPlan(calls[c1].req.data).title = JsonPlan(calls[c2].req.data).title
        => /\ \A c \in {c1, c2} :
                \E d \in DecksOf(c) : /\ d.owner_id = calls[c].req.user_id
                                      /\ d.title = JsonPlan(calls[c].req.data).title
           /\ c1 \notin calls[c2].before /\ c2 \notin calls[c1].before

\* C17 witness: starting without a deck of the title, two JSON imports of it
\* by one user, both without mergeDuplicates, have both committed and the user
\* owns two decks of that title
DuplicateTitleRaceWitness ==
    \E c1, c2 \in CreatedByJson :
        /\ c1 # c2
        /\ calls[c1].req = calls[c2].req /\ ~calls[c1].req.merge_duplicates
        /\ calls[c1].before = {} /\ calls[c2].before = {}
        /\ Cardinality({d \in decks : /\ d.owner_id = calls[c1].req.user_id
                                      /\ d.title = JsonPlan(calls[c1].req.data).title}) = 2

\* the (front, back) pairs of a deck's cards, in the order of their positions
CardPairs(deck_id) ==
    LET cs == CHOOSE s \in OrderedByPosition({k \in cards : k.deck_id = deck_id}) : TRUE
    IN  [i \in 1..Len(cs) |-> <<cs[i].front, cs[i].back>>]

\* call 1 uploaded what the finished export_deck returned, under its format
RoundTripDone ==
    /\ calls[1].pc = "done"
    /\ export.pc = "done" /\ export.op = "export_deck"
    /\ export.result = Ok(calls[1].req.data)
    /\ export.format = calls[1].req.format

\* C13: the upload of an exported deck, by a user without a deck of its title,
\* commits a new deck with the source's title and the source's (front, back)
\* pairs in the source's order
RoundTrip ==
    RoundTripDone =>
        /\ 1 \in Committed
        /\ \E d \in DecksOf(1), source \in decks :
            /\ source.id = export.deck_ids[1]
            /\ d.title = source.title
            /\ CardPairs(d.id) = CardPairs(source.id)

\* the documents a successful export returned, one per deck read
ExportedDocs ==
    IF export.op = "export_decks" THEN export.result.value ELSE <<export.result.value>>

\* C14: in a JSON export, metadata.total_cards is the length of the cards list
\* and the number of card rows read for the deck
JsonExportCount ==
    /\ export.pc = "done" /\ export.result.kind = "Ok"
    /\ export.op \in {"export_deck", "export_decks"} /\ export.format = "json"
    => \A i \in 1..Len(ExportedDocs) :
            /\ ExportedDocs[i].total_cards = Len(ExportedDocs[i].cards)
            /\ Len(ExportedDocs[i].cards) = Len(export.read[i])

\* C14 witness: a deck of two or more cards was exported as JSON
JsonExportCountWitness ==
    /\ export.pc = "done" /\ export.result.kind = "Ok"
    /\ export.op = "export_deck" /\ export.format = "json"
    /\ Len(export.read[1]) >= 2
    /\ export.result.value.total_cards = Len(export.read[1])

\* C15: export_deck of an id that is not a deck of the caller (no such deck,
\* or a deck of another user, public or not) returns NotFound, the same
\* value in every such case
ExportConfidentiality ==
    /\ export.pc = "done" /\ export.op = "export_deck"
    /\ ~\E d \in decks : d.id = export.deck_ids[1] /\ d.owner_id = export.user_id
    => export.result = Err("NotFound")

\* C15 witness: the export of another user's public deck returned NotFound
ExportConfidentialityWitness ==
    /\ export.pc = "done" /\ export.op = "export_deck"
    /\ \E d \in decks : /\ d.id = export.deck_ids[1]
                        /\ d.owner_id # export.user_id /\ d.is_public
    /\ export.result = Err("NotFound")

\* C16: export_decks returns, in the order of the ids, what export_deck
\* returns for each: the encoding of the deck and of all its cards in
\* ascending position; it fails when one of the ids is not a deck of the caller
BulkExport ==
    export.pc = "done" /\ export.op = "export_decks" =>
        LET ids == export.deck_ids
        IN  /\ export.result.kind = "Ok" =>
                /\ Len(export.result.value) = Len(ids)
                /\ \A i \in 1..Len(ids) :
                    \E d \in decks :
                        /\ d.id = ids[i] /\ d.owner_id = export.user_id
                        /\ {export.read[i][j] : j \in 1..Len(export.read[i])}
                                = {k \in cards : k.deck_id = d.id}
                        /\ \A j, k \in 1..Len(export.read[i]) :
                                j < k => export.read[i][j].position <= export.read[i][k].position
                        /\ export.result.value[i] = Encode(export.format, d, export.read[i])
            /\ (\E i \in 1..Len(ids) : \A d \in decks : d.id # ids[i])
                    => export.result.kind = "Err"
            /\ export.result.kind = "Err" => export.all_data = <<>>

\* C16 witness: a bulk export of two different decks, one of them with two or
\* more cards, returned both payloads
BulkExportWitness ==
    /\ export.pc = "done" /\ export.op = "export_decks" /\ export.result.kind = "Ok"
    /\ Len(export.deck_ids) = 2 /\ export.deck_ids[1] # export.deck_ids[2]
    /\ \E i \in 1..2 : Len(export.read[i]) >= 2

InsertedBy(k) ==
    IF k.id.call \in CallIds THEN calls[k.id.call].req.user_id
    ELSE IF k.id.call = ServiceCall THEN service.user_id
    ELSE (CHOOSE d \in decks : d.id = k.deck_id).owner_id

CsvImportAtomic ==
    service.pc = "done" /\ service.op = "import_csv" /\ service.result.kind = "Err"
        => \A k \in cards : k.id.call # ServiceCall

AnkiNotesToCards ==
    \A c \in CallIds :
        /\ calls[c].pc = "done" /\ calls[c].req.format = "anki"
        /\ calls[c].req.data.syntax = "json"
        /\ Accepted(c)
        => LET notes == calls[c].req.data.notes
               kept == SelectSeq([i \in 1..Len(notes) |-> notes[i].fields],
                                 LAMBDA f : Len(f) >= 2)
               stored == OrderedByPosition(CardsOf(c))
           IN  /\ c \in Committed
               /\ calls[c].result.value.errors = <<>>
               /\ calls[c].result.value.warnings = <<>>
               /\ Cardinality(CardsOf(c)) = Len(kept)
               /\ \E s \in stored :
                    \A i \in 1..Len(kept) :
                        s[i].front = kept[i][1] /\ s[i].back = kept[i][2]

\* C22 witness: an Anki upload of a note with one field followed by a note
\* with two fields committed
AnkiNotesToCardsWitness ==
    /\ 1 \in Committed /\ calls[1].req.format = "anki"
    /\ Len(calls[1].req.data.notes) = 2
    /\ Len(calls[1].req.data.notes[1].fields) = 1
    /\ Len(calls[1].req.data.notes[2].fields) >= 2
    /\ Cardinality(CardsOf(1)) = 1

\* C23: the result of a successful import lists one deck, counts one deck, and
\* both its total_cards_imported and the card_count of its deck equal the
\* number of card rows the call inserted
ResultAccuracy ==
    \A c \in Committed :
        LET r == calls[c].result.value
        IN  /\ Len(r.imported_decks) = 1
            /\ r.total_decks_imported = 1
            /\ r.total_cards_imported = Cardinality(CardsOf(c))
            /\ r.imported_decks[1].card_count = Cardinality(CardsOf(c))

\* C24: a Markdown upload that went through has one card per `## Card` line, in
\* the order of these lines; the card of a heading has as front the text of the
\* last `**Front:**` line between its heading and the next heading (or the end
\* of the text) and as back the text of the last `**Back:**` line there, the
\* empty string when there is none; lines before the first heading and lines
\* with another start give no card
MarkdownGrammar ==
    \A c \in CallIds :
        /\ calls[c].pc = "done" /\ calls[c].req.format = "markdown"
        /\ calls[c].req.data.syntax = "md"
        /\ Accepted(c)
        => LET lines == calls[c].req.data.lines
               headings == {i \in 1..Len(lines) : lines[i].pre = "## Card"}
               heading(k) == CHOOSE i \in headings :
                                Cardinality({j \in headings : j < i}) = k - 1
               end(k) == IF k = Cardinality(headings) THEN Len(lines) + 1
                         ELSE heading(k + 1)
               field(k, pre) ==
                    LET at == {i \in heading(k)..(end(k) - 1) : lines[i].pre = pre}
                    IN  IF at = {} THEN "" ELSE Trim(lines[SetMax(at)].text)
           IN  /\ c \in Committed
               /\ Cardinality(CardsOf(c)) = Cardinality(headings)
               /\ \E s \in OrderedByPosition(CardsOf(c)) :
                    \A k \in 1..Cardinality(headings) :
                        /\ s[k].front = field(k, "**Front:**")
                        /\ s[k].back = field(k, "**Back:**")

\* C24 witness: a Markdown upload committed that had a Front line before its
\* first heading, a card with two Front lines and no Back line, and a second
\* card
MarkdownGrammarWitness ==
    /\ 1 \in Committed /\ calls[1].req.format = "markdown"
    /\ calls[1].req.data.syntax = "md"
    /\ Len(calls[1].req.data.lines) = 5
    /\ calls[1].req.data.lines[1].pre = "**Front:**"
    /\ calls[1].req.data.lines[2].pre = "## Card"
    /\ calls[1].req.data.lines[3] = [pre |-> "**Front:**", text |-> " q1"]
    /\ calls[1].req.data.lines[4] = [pre |-> "**Front:**", text |-> " see ## Card 2"]
    /\ calls[1].req.data.lines[5].pre = "## Card"
    /\ {[front |-> k.front, back |-> k.back, position |-> k.position] : k \in CardsOf(1)}
            = {[front |-> "see ## Card 2", back |-> "", position |-> 0],
               [front |-> "", back |-> "", position |-> 1]}

\* C25: for a CSV upload of a header and N >= 1 data rows of valid UTF-8 that
\* each have two fields or more, the validator answers is_valid with
\* deck_count 1 and card_count N, and the import commits N cards, the card at
\* the i-th position with front and back the first and second field of row i
CsvRowsToCards ==
    \A c \in CallIds :
        /\ calls[c].pc = "done" /\ calls[c].req.format = "csv"
        /\ calls[c].req.data.syntax = "csv"
        /\ Len(calls[c].req.data.records) >= 2
        /\ \A i \in 2..Len(calls[c].req.data.records) :
                /\ calls[c].req.data.records[i].utf8
                /\ Len(calls[c].req.data.records[i].fields) >= 2
        => LET rows == Tail(calls[c].req.data.records)
               v == validate_import(calls[c].req.data, "csv")
           IN  /\ v.is_valid /\ v.deck_count = 1 /\ v.card_count = Len(rows)
               /\ c \in Committed
               /\ Cardinality(CardsOf(c)) = Len(rows)
               /\ \E s \in OrderedByPosition(CardsOf(c)) :
                    \A i \in 1..Len(rows) :
                        /\ s[i].front = rows[i].fields[1]
                        /\ s[i].back = rows[i].fields[2]

\* C26: an upload the validator accepts is decoded by the importer: the call
\* does not return a decode error
ValidatedDecodes ==
    \A c \in CallIds :
        /\ calls[c].pc = "done"
        /\ validate_import(calls[c].req.data, calls[c].req.format).is_valid
        => /\ Plan(calls[c].req.format, calls[c].req.data).ok
           /\ calls[c].result.kind = "Ok"

\* C27: the card_count the validator reports for an upload that went through
\* is the number of cards the import has persisted, and the
\* total_cards_imported of its result
PreviewAccuracy ==
    \A c \in Committed :
        LET v == validate_import(calls[c].req.data, calls[c].req.format)
        IN  /\ v.card_count = Cardinality(CardsOf(c))
            /\ v.card_count = calls[c].result.value.total_cards_imported

\* C28: no two cards of a deck have the same position
PositionUniqueness ==
    \A k1, k2 \in cards :
        k1.deck_id = k2.deck_id /\ k1.position = k2.position => k1 = k2

\* C29: a deck created by an import call is owned by the user of the call, is
\* not public, and is in a folder only if that folder is a folder of that user
FolderOwnership ==
    \A d \in decks :
        d.id.call \in CallIds
        => /\ d.owner_id = calls[d.id.call].req.user_id
           /\ ~d.is_public
           /\ d.folder_id.some
                => \E g \in Folders : g.id = d.folder_id.val /\ g.user_id = d.owner_id

\* C30: no two refresh_token requests that presented the same refresh token
\* have both succeeded, and no refresh_token request has succeeded with a token
\* that was revoked when the request was issued
RefreshSingleUse ==
    LET refreshed == {a \in AuthIds : /\ auth[a].op = "refresh_token"
                                      /\ auth[a].pc = "done"
                                      /\ auth[a].result.kind = "Ok"}
    IN  /\ \A a, b \in refreshed :
                auth[a].refresh_token = auth[b].refresh_token => a = b
        /\ \A a \in refreshed : auth[a].refresh_token \notin auth[a].revoked_before

=============================================================================
